---- MODULE Spec2Model ----
(***************************************************************************)
(* Model of the Velvet preprocessing worker                                *)
(* (src/services/preproc-worker/main.py) and of the standalone OCR         *)
(* experiment (src/test-optimized-ocr.py).                                 *)
(*                                                                         *)
(* Text is a sequence of characters, each character a one-element string.  *)
(* The non-ASCII glyphs of the correction table are written with ASCII     *)
(* stand-ins, each still ONE character of the text:                        *)
(*   "YEN" = U+00A5, "SECT" = U+00A7, "COPY" = U+00A9, "REG" = U+00AE,     *)
(*   "TM" = U+2122; "BACKTICK" = U+0060.                                   *)
(* A confidence that the code holds as a float is the exact fraction       *)
(* <<num, den>> (num / den).                                               *)
(***************************************************************************)
EXTENDS Integers, Sequences, FiniteSets, TLC

(***************************************************************************)
(* Bounds of the model.                                                    *)
(***************************************************************************)
\* longest token stream one recognition call returns
MaxTokens == 8
\* requests served one after the other
MaxRequests == 2
\* longest raw string handed to the text correctors, character by character
MaxLen == 6
\* longest sentence (in words) handed to the correctors and the classifier
MaxWords == 3

(***************************************************************************)
(* Characters and the str built-ins the code uses.                         *)
(***************************************************************************)
LowerChars ==
    <<"a", "b", "c", "d", "e", "f", "g", "h", "i", "j", "k", "l", "m",
      "n", "o", "p", "q", "r", "s", "t", "u", "v", "w", "x", "y", "z">>

UpperChars ==
    <<"A", "B", "C", "D", "E", "F", "G", "H", "I", "J", "K", "L", "M",
      "N", "O", "P", "Q", "R", "S", "T", "U", "V", "W", "X", "Y", "Z">>

DigitChars == {"0", "1", "2", "3", "4", "5", "6", "7", "8", "9"}

Range(f) == {f[i] : i \in DOMAIN f}

\* str.isspace of one character
IsSpace(c) == c \in {" ", "\t", "\n"}

\* str.isalpha of one character
IsAlpha(c) == c \in Range(LowerChars) \cup Range(UpperChars)

\* str.isalpha of a string: non-empty and every character alphabetic
isalpha(s) == s # <<>> /\ \A i \in DOMAIN s : IsAlpha(s[i])

\* str.lower of one character
LowerChar(c) ==
    IF c \in Range(UpperChars)
    THEN LowerChars[CHOOSE i \in DOMAIN UpperChars : UpperChars[i] = c]
    ELSE c

\* str.lower
lower(s) == [i \in DOMAIN s |-> LowerChar(s[i])]

RECURSIVE lstrip(_)
lstrip(s) == IF s # <<>> /\ IsSpace(Head(s)) THEN lstrip(Tail(s)) ELSE s

RECURSIVE rstrip(_)
rstrip(s) ==
    IF s # <<>> /\ IsSpace(s[Len(s)]) THEN rstrip(SubSeq(s, 1, Len(s) - 1)) ELSE s

\* str.strip()
strip(s) == rstrip(lstrip(s))

RECURSIVE SplitAcc(_, _, _)
SplitAcc(s, cur, acc) ==
    IF s = <<>>
    THEN IF cur = <<>> THEN acc ELSE Append(acc, cur)
    ELSE IF IsSpace(Head(s))
         THEN SplitAcc(Tail(s), <<>>, IF cur = <<>> THEN acc ELSE Append(acc, cur))
         ELSE SplitAcc(Tail(s), Append(cur, Head(s)), acc)

\* str.split(): the maximal runs of non-whitespace characters
split(s) == SplitAcc(s, <<>>, <<>>)

RECURSIVE join(_, _)
\* sep.join(words)
join(sep, words) ==
    IF words = <<>> THEN <<>>
    ELSE IF Len(words) = 1 THEN words[1]
    ELSE words[1] \o sep \o join(sep, Tail(words))

RECURSIVE count(_, _)
\* str.count of a one-character needle
count(s, c) ==
    IF s = <<>> THEN 0
    ELSE (IF Head(s) = c THEN 1 ELSE 0) + count(Tail(s), c)

RECURSIVE replace_char(_, _, _)
\* str.replace of a one-character needle by the string r
replace_char(s, c, r) ==
    IF s = <<>> THEN <<>>
    ELSE (IF Head(s) = c THEN r ELSE <<Head(s)>>) \o replace_char(Tail(s), c, r)

IsPrefix(p, s) == Len(p) <= Len(s) /\ SubSeq(s, 1, Len(p)) = p

RECURSIVE replace(_, _, _)
\* str.replace of a non-empty needle: leftmost, non-overlapping occurrences
replace(s, old, new) ==
    IF s = <<>> THEN <<>>
    ELSE IF IsPrefix(old, s)
         THEN new \o replace(SubSeq(s, Len(old) + 1, Len(s)), old, new)
         ELSE <<Head(s)>> \o replace(Tail(s), old, new)

\* pattern in text
Contains(s, p) ==
    \E i \in 1..(Len(s) - Len(p) + 1) : SubSeq(s, i, i + Len(p) - 1) = p

\* any(pattern in text for pattern in patterns)
AnyIn(patterns, s) == \E k \in DOMAIN patterns : Contains(s, patterns[k])

(***************************************************************************)
(* VelvetPreprocessor.post_process_ocr_text                                *)
(***************************************************************************)
\* the corrections dict, in insertion order
corrections ==
    << <<"0", <<"O">>>>, <<"1", <<"I">>>>, <<"5", <<"S">>>>, <<"8", <<"B">>>>,
       <<"@", <<"a">>>>, <<"|", <<"l">>>>, <<"YEN", <<"Y">>>>,
       <<"SECT", <<"S">>>>, <<"COPY", <<"C">>>>, <<"REG", <<"R">>>>,
       <<"TM", <<"T", "M">>>> >>

\* the punctuation the artifact filter of main.py keeps
KeptPunct ==
    {".", ",", "!", "?", "@", "#", "$", "%", "^", "&", "*", "(", ")", "_",
     "+", "-", "=", "[", "]", "{", "}", "|", ";", ":", "\"", "<", ">", "/",
     "~", "BACKTICK"}

\* a character outside the class the filter keeps (letters, digits, whitespace
\* and KeptPunct)
IsArtifactChar(c) ==
    ~(IsAlpha(c) \/ c \in DigitChars \/ IsSpace(c) \/ c \in KeptPunct)

RECURSIVE ArtifactRun(_)
\* length of the run of artifact characters s starts with
ArtifactRun(s) ==
    IF s # <<>> /\ IsArtifactChar(Head(s)) THEN 1 + ArtifactRun(Tail(s)) ELSE 0

RECURSIVE SubArtifacts(_)
\* re.sub with the quantifier {3,}: every maximal run of 3 or more artifact
\* characters becomes one space
SubArtifacts(s) ==
    IF s = <<>> THEN <<>>
    ELSE LET n == ArtifactRun(s)
         IN  IF n >= 3 THEN <<" ">> \o SubArtifacts(SubSeq(s, n + 1, Len(s)))
             ELSE IF n >= 1
                  THEN SubSeq(s, 1, n) \o SubArtifacts(SubSeq(s, n + 1, Len(s)))
                  ELSE <<Head(s)>> \o SubArtifacts(Tail(s))

RECURSIVE ApplyCorrections(_, _, _)
\* for wrong, right in corrections.items(): from entry k on
ApplyCorrections(word, corrected, k) ==
    IF k > Len(corrections) THEN corrected
    ELSE LET wrong == corrections[k][1]
             right == corrections[k][2]
         IN  ApplyCorrections(
                 word,
                 IF count(word, wrong) > 0 /\ count(word, wrong) <= 2
                 THEN replace_char(corrected, wrong, right)
                 ELSE corrected,
                 k + 1)

\* the body of "for word in words"
CorrectWord(word) ==
    IF Len(word) > 2 THEN ApplyCorrections(word, word, 1) ELSE word

post_process_ocr_text(raw_text) ==
    IF raw_text = <<>> THEN <<>>
    ELSE LET words == split(raw_text)
             corrected_words == [i \in DOMAIN words |-> CorrectWord(words[i])]
             joined == join(<<" ">>, corrected_words)
             normalised == join(<<" ">>, split(joined))
         IN  strip(SubArtifacts(normalised))

(***************************************************************************)
(* advanced_post_process of src/test-optimized-ocr.py                      *)
(***************************************************************************)
\* its corrections dict, in insertion order
adv_corrections ==
    << <<"0", <<"O">>>>, <<"1", <<"I">>>>, <<"5", <<"S">>>>, <<"8", <<"B">>>>,
       <<"6", <<"G">>>>, <<"@", <<"a">>>>, <<"|", <<"l">>>>, <<"YEN", <<"Y">>>>,
       <<"SECT", <<"S">>>>, <<"COPY", <<"C">>>>, <<"REG", <<"R">>>> >>

\* the word_fixes dict, in insertion order
word_fixes ==
    << <<(<<"t", "e", "h">>), (<<"t", "h", "e">>)>>,
       <<(<<"a", "d", "n">>), (<<"a", "n", "d">>)>>,
       <<(<<"t", "a", "h", "t">>), (<<"t", "h", "a", "t">>)>>,
       <<(<<"w", "i", "h", "t">>), (<<"w", "i", "t", "h">>)>>,
       <<(<<"y", "u", "o">>), (<<"y", "o", "u">>)>>,
       <<(<<"c", "n", "a">>), (<<"c", "a", "n">>)>>,
       <<(<<"w", "o", "u", "d", "l">>), (<<"w", "o", "u", "l", "d">>)>>,
       <<(<<"h", "t", "e">>), (<<"t", "h", "e">>)>> >>

\* sum(c.isalpha() for c in s)
AlphaCount(s) == Cardinality({i \in DOMAIN s : IsAlpha(s[i])})

RECURSIVE ApplyAdvCorrections(_, _, _)
\* for wrong, right in corrections.items(): from entry k on
ApplyAdvCorrections(word, corrected, k) ==
    IF k > Len(adv_corrections) THEN corrected
    ELSE LET wrong == adv_corrections[k][1]
             right == adv_corrections[k][2]
             test_correction == replace_char(corrected, wrong, right)
         IN  ApplyAdvCorrections(
                 word,
                 IF count(word, wrong) > 0
                    /\ AlphaCount(test_correction) >= AlphaCount(corrected)
                 THEN test_correction
                 ELSE corrected,
                 k + 1)

\* the body of "for word in words"
AdvCorrectWord(word) ==
    IF Len(word) < 2 THEN word ELSE ApplyAdvCorrections(word, word, 1)

RECURSIVE ApplyWordFixes(_, _)
\* for wrong, right in word_fixes.items(): from entry k on
ApplyWordFixes(processed, k) ==
    IF k > Len(word_fixes) THEN processed
    ELSE ApplyWordFixes(
             replace(processed,
                     <<" ">> \o word_fixes[k][1] \o <<" ">>,
                     <<" ">> \o word_fixes[k][2] \o <<" ">>),
             k + 1)

\* For the characters of this model the class of the experiment's filter
\* (\w instead of a-zA-Z0-9) keeps what the filter of main.py keeps.
advanced_post_process(raw_text) ==
    IF raw_text = <<>> THEN <<>>
    ELSE LET words == split(join(<<" ">>, split(raw_text)))
             corrected_words ==
                 [i \in DOMAIN words |-> AdvCorrectWord(words[i])]
             processed == ApplyWordFixes(join(<<" ">>, corrected_words), 1)
         IN  join(<<" ">>, split(SubArtifacts(processed)))

(***************************************************************************)
(* VelvetPreprocessor.analyze_text_context                                 *)
(***************************************************************************)
comm_patterns ==
    <<<<"m", "e", "s", "s", "a", "g", "e">>,
       <<"e", "m", "a", "i", "l">>,
       <<"c", "h", "a", "t">>,
       <<"d", "i", "s", "c", "o", "r", "d">>,
       <<"s", "l", "a", "c", "k">>,
       <<"t", "e", "a", "m", "s">>,
       <<"z", "o", "o", "m">>,
       <<"f", "r", "o", "m", ":">>,
       <<"t", "o", ":">>,
       <<"s", "u", "b", "j", "e", "c", "t", ":">>>>

code_patterns ==
    <<<<"f", "u", "n", "c", "t", "i", "o", "n">>,
       <<"c", "l", "a", "s", "s">>,
       <<"i", "m", "p", "o", "r", "t">>,
       <<"e", "x", "p", "o", "r", "t">>,
       <<"c", "o", "n", "s", "t">>,
       <<"l", "e", "t">>,
       <<"v", "a", "r">>,
       <<"d", "e", "f">>,
       <<"{">>,
       <<"}">>,
       <<"/", "/">>,
       <<"/", "*">>>>

doc_patterns ==
    <<<<"d", "o", "c", "u", "m", "e", "n", "t">>,
       <<"p", "a", "g", "e">>,
       <<"c", "h", "a", "p", "t", "e", "r">>,
       <<"s", "e", "c", "t", "i", "o", "n">>,
       <<"p", "a", "r", "a", "g", "r", "a", "p", "h">>,
       <<"w", "o", "r", "d">>,
       <<"p", "d", "f">>>>

web_patterns ==
    <<<<"h", "t", "t", "p">>,
       <<"w", "w", "w", ".">>,
       <<".", "c", "o", "m">>,
       <<".", "o", "r", "g">>,
       <<"s", "e", "a", "r", "c", "h">>,
       <<"g", "o", "o", "g", "l", "e">>,
       <<"b", "r", "o", "w", "s", "e", "r">>>>

urgent_patterns ==
    <<<<"u", "r", "g", "e", "n", "t">>,
       <<"a", "s", "a", "p">>,
       <<"d", "e", "a", "d", "l", "i", "n", "e">>,
       <<"i", "m", "p", "o", "r", "t", "a", "n", "t">>,
       <<"c", "r", "i", "t", "i", "c", "a", "l">>,
       <<"e", "m", "e", "r", "g", "e", "n", "c", "y">>>>

medium_patterns ==
    <<<<"s", "o", "o", "n">>,
       <<"t", "o", "d", "a", "y">>,
       <<"m", "e", "e", "t", "i", "n", "g">>>>

frustration_patterns ==
    <<<<"f", "r", "u", "s", "t", "r", "a", "t", "e", "d">>,
       <<"a", "n", "n", "o", "y", "e", "d">>,
       <<"i", "r", "r", "i", "t", "a", "t", "e", "d">>,
       <<"a", "n", "g", "r", "y">>>>

stress_patterns ==
    <<<<"s", "t", "r", "e", "s", "s", "e", "d">>,
       <<"o", "v", "e", "r", "w", "h", "e", "l", "m", "e", "d">>,
       <<"a", "n", "x", "i", "o", "u", "s">>,
       <<"w", "o", "r", "r", "i", "e", "d">>>>

positive_patterns ==
    <<<<"g", "r", "e", "a", "t">>,
       <<"a", "w", "e", "s", "o", "m", "e">>,
       <<"p", "e", "r", "f", "e", "c", "t">>,
       <<"e", "x", "c", "e", "l", "l", "e", "n", "t">>>>

neutral_patterns ==
    <<<<"f", "i", "n", "e">>,
       <<"o", "k", "a", "y">>,
       <<"s", "u", "r", "e">>,
       <<"w", "h", "a", "t", "e", "v", "e", "r">>>>

task_patterns ==
    <<<<"t", "o", "d", "o">>,
       <<"t", "a", "s", "k">>,
       <<"c", "o", "m", "p", "l", "e", "t", "e">>,
       <<"f", "i", "n", "i", "s", "h">>,
       <<"d", "o", "n", "e">>,
       <<"n", "e", "e", "d", " ", "t", "o">>,
       <<"h", "a", "v", "e", " ", "t", "o">>,
       <<"s", "h", "o", "u", "l", "d">>>>

\* the emotional_patterns dict, in insertion order
emotional_patterns ==
    << <<"frustration", frustration_patterns>>, <<"stress", stress_patterns>>,
       <<"positive", positive_patterns>>, <<"neutral", neutral_patterns>> >>

RECURSIVE EmotionalIndicators(_, _)
\* for emotion, patterns in emotional_patterns.items(): from entry k on
EmotionalIndicators(text_lower, k) ==
    IF k > Len(emotional_patterns) THEN <<>>
    ELSE (IF AnyIn(emotional_patterns[k][2], text_lower)
          THEN <<emotional_patterns[k][1]>> ELSE <<>>)
         \o EmotionalIndicators(text_lower, k + 1)

\* the urgency detection with the medium tier tested first
urgency_level_medium_first(text_lower) ==
    IF AnyIn(medium_patterns, text_lower) THEN "medium"
    ELSE IF AnyIn(urgent_patterns, text_lower) THEN "high"
    ELSE "low"

\* the urgency detection
urgency_level(text_lower) ==
    IF AnyIn(urgent_patterns, text_lower) THEN "high"
    ELSE IF AnyIn(medium_patterns, text_lower) THEN "medium"
    ELSE "low"

\* the web detection without the ".com" pattern
is_web_no_dot_com(text_lower) ==
    AnyIn(SelectSeq(web_patterns, LAMBDA q : q # <<".", "c", "o", "m">>),
          text_lower)

\* the web detection
is_web(text_lower) == AnyIn(web_patterns, text_lower)

analyze_text_context(text) ==
    LET text_lower == lower(text)
    IN  [word_count |-> Len(split(text)),
         is_communication |-> AnyIn(comm_patterns, text_lower),
         is_code |-> AnyIn(code_patterns, text_lower),
         is_document |-> AnyIn(doc_patterns, text_lower),
         is_web |-> is_web(text_lower),
         urgency_level |-> urgency_level(text_lower),
         emotional_indicators |-> EmotionalIndicators(text_lower, 1),
         task_indicators |->
             IF AnyIn(task_patterns, text_lower)
             THEN <<"task_detected">> ELSE <<>>]

(***************************************************************************)
(* The recognition engine (pytesseract.image_to_data) and the whisper      *)
(* model are black boxes: what they return is drawn from bounded sets.     *)
(***************************************************************************)
w_a == <<"a">>
w_ok == <<"o", "k">>
w_the == <<"t", "h", "e">>
w_hello == <<"h", "e", "l", "l", "o">>
w_definitely == <<"d", "e", "f", "i", "n", "i", "t", "e", "l", "y">>
w_x1 == <<"x", "1">>
w_ab12 == <<"a", "b", "1", "2">>
w_abc12 == <<"a", "b", "c", "1", "2">>
w_padded == <<" ", "t", "h", "e", " ">>
w_noise == <<"SECT", "SECT", "SECT">>

\* one row of ocr_data: text[i] and conf[i]; parses = FALSE is a conf that
\* int() rejects with ValueError (a string such as '95.5')
Token(text, conf) == [text |-> text, conf |-> conf, parses |-> TRUE]

BadToken(text) == [text |-> text, conf |-> 0, parses |-> FALSE]

\* the row of a layout box: no text, conf -1
LayoutBox == Token(<<>>, -1)

Repeat(tok, n) == [i \in 1..n |-> tok]

\* what one image_to_data call does: raise, or return the rows
EngineError == [raises |-> TRUE, tokens |-> <<>>]

EngineData(tokens) == [raises |-> FALSE, tokens |-> tokens]

\* the token streams the pipeline is run on: an engine error, streams with
\* nothing to accept, long streams of equal tokens (MaxTokens words at 45 and
\* at 90, three fewer at 90), single and mixed tokens at the thresholds,
\* artifact-only tokens, and streams holding a conf that int() rejects
EngineOutputs ==
    {EngineError,
     EngineData(<<LayoutBox>>),
     EngineData(Repeat(Token(w_hello, 45), MaxTokens)),
     EngineData(Repeat(Token(w_hello, 90), MaxTokens)),
     EngineData(Repeat(Token(w_hello, 90), MaxTokens - 3)),
     EngineData(<<Token(w_the, 30)>>),
     EngineData(<<Token(w_the, 31)>>),
     EngineData(<<Token(w_abc12, 100)>>),
     EngineData(<<Token(w_noise, 41)>>),
     EngineData(<<Token(w_hello, 100), Token(w_noise, 41)>>),
     EngineData(<<Token(w_ok, 41), Token(w_x1, 40)>>),
     EngineData(<<Token(w_abc12, 36), Token(w_hello, 0)>>),
     EngineData(<<Token(w_the, 31), LayoutBox, Token(w_ab12, 100)>>),
     EngineData(<<Token(w_hello, 90), BadToken(w_hello)>>),
     EngineData(<<BadToken(w_a), Token(w_padded, 31)>>)}

\* every single-token stream: each word shape with each confidence
TokenGrid ==
    {EngineData(<<Token(w, c)>>) :
         w \in {<<>>, w_a, w_ok, w_x1, w_the, w_padded, w_ab12, w_hello,
                w_abc12, w_definitely, w_noise},
         c \in (-1)..100}

\* one segment of a whisper result; has_prob = FALSE lacks "no_speech_prob"
Segment(p) == [has_prob |-> TRUE, no_speech_prob |-> p]

NoProbSegment == [has_prob |-> FALSE, no_speech_prob |-> 0]

\* what whisper_model.transcribe does: raise, or return text and segments
\* (no_speech_prob in percent)
WhisperResults ==
    {[raises |-> TRUE, text |-> <<>>, segments |-> <<>>],
     [raises |-> FALSE, text |-> <<" ", "h", "i">>, segments |-> <<>>],
     [raises |-> FALSE, text |-> <<"h", "i">>,
      segments |-> <<Segment(0), Segment(50)>>],
     [raises |-> FALSE, text |-> <<"h", "i">>, segments |-> <<NoProbSegment>>],
     [raises |-> FALSE, text |-> <<>>, segments |-> <<Segment(100)>>]}

(***************************************************************************)
(* VelvetPreprocessor.extract_text_with_confidence                         *)
(***************************************************************************)
\* Every statement that can raise stands inside the try of one approach, so
\* the outer "except Exception: return '', 0.0" of the method is never
\* entered and has no action here.
\* the approaches list
approaches == <<"auto_page", "uniform_block", "single_column">>

\* the thresholds of the experiment (test-optimized-ocr.py): 35, 30 and 25
min_confidence_experiment(word) ==
    LET base == 35
        longer == IF Len(word) > 4 THEN 30 ELSE base
    IN  IF isalpha(word) /\ Len(word) > 2 THEN 25 ELSE longer

\* min_confidence with the two tests in the other order: the length test
\* overrides the alphabetic one
min_confidence_swapped(word) ==
    LET base == 40
        alpha == IF isalpha(word) /\ Len(word) > 2 THEN 30 ELSE base
    IN  IF Len(word) > 4 THEN 35 ELSE alpha

\* the dynamic confidence threshold of one word
min_confidence(word) ==
    LET base == 40
        longer == IF Len(word) > 4 THEN 35 ELSE base
    IN  IF isalpha(word) /\ Len(word) > 2 THEN 30 ELSE longer

\* the locals at the top of one approach
FreshLocals ==
    [confident_words |-> <<>>, total_confidence |-> 0, word_count |-> 0,
     raised |-> FALSE]

\* one pass of the body of "for i, conf in enumerate(ocr_data['conf'])"
ScoreToken(acc, tok) ==
    LET word == strip(tok.text)
    IN  IF word # <<>> /\ Len(word) > 1
        THEN IF ~tok.parses
             THEN [acc EXCEPT !.raised = TRUE]
             ELSE IF tok.conf > min_confidence(word)
                  THEN [acc EXCEPT !.confident_words = Append(@, word),
                                   !.total_confidence = @ + tok.conf,
                                   !.word_count = @ + 1]
                  ELSE acc
        ELSE acc

RECURSIVE ScoreTokens(_, _)
\* the token loop; it stops where int(conf) raises
ScoreTokens(tokens, acc) ==
    IF tokens = <<>> \/ acc.raised THEN acc
    ELSE ScoreTokens(Tail(tokens), ScoreToken(acc, Head(tokens)))

\* avg_confidence = total_confidence / word_count if word_count > 0 else 0
AvgConfidence(total, n) == IF n > 0 THEN <<total, n>> ELSE <<0, 1>>

\* the confidence left on the engine's 0..100 scale
ScaledRaw(avg) == avg

\* avg_confidence / 100.0
Scaled(avg) == <<avg[1], avg[2] * 100>>

\* the gate without the word-count test
GateConfidenceOnly(n, avg, best_n) == avg[1] > 30 * avg[2]

\* the gate with >= for the word count
GateNotStrict(n, avg, best_n) == n >= best_n /\ avg[1] > 30 * avg[2]

\* word_count > best_word_count and avg_confidence > 30
Gate(n, avg, best_n) == n > best_n /\ avg[1] > 30 * avg[2]

\* ('', 0.0)
EmptyResult == [text |-> <<>>, confidence |-> <<0, 1>>]

(***************************************************************************)
(* State.                                                                  *)
(***************************************************************************)
VARIABLES
    \* velvet_processor.processed_count
    processed_count,
    \* where analyze_brain_context stands: "idle", "read_image" (await
    \* image.read()), "ocr" (inside extract_text_with_confidence),
    \* "read_audio" (await audio.read()), "done", "error"
    pc,
    \* the payloads of the request, "unread" until the handler looks at them
    image, audio,
    \* locals of extract_text_with_confidence
    approach_idx, best_result, best_word_count, ocr_data, confident_words,
    total_confidence, word_count, avg_confidence, extracted_text,
    \* history: what each approach tried so far came to
    outcomes,
    \* locals of analyze_brain_context
    screen_text, ocr_confidence, context_analysis, transcript, asr_confidence,
    \* what the handler returned (status "ok") or raised (status "error")
    response,
    \* the text correctors run on their own: the input, the number of passes
    \* of each corrector, and the result of each pass
    raw_text, passes, corrected, recorrected, adv_passes, fixed, refixed,
    \* the classifier run on its own: the input, whether it ran, its result
    text, classified, analysis,
    \* concurrent requests on the one event loop: the coroutine of each
    \* request (its position, the counter value it loaded, its payloads,
    \* whether it saved a debug image, what it returned), the coroutine
    \* that holds the loop (0 when the loop is free), and the count the last
    \* health check reported
    tasks, running, health

requestVars ==
    <<processed_count, pc, image, audio, approach_idx, best_result,
      best_word_count, ocr_data, confident_words, total_confidence, word_count,
      avg_confidence, extracted_text, outcomes, screen_text, ocr_confidence,
      context_analysis, transcript, asr_confidence, response>>

textVars == <<raw_text, passes, corrected, recorrected, adv_passes, fixed, refixed>>

classifyVars == <<text, classified, analysis>>

concVars == <<tasks, running, health>>

vars == <<requestVars, textVars, classifyVars, concVars>>

\* no analysis yet
NoAnalysis ==
    [word_count |-> 0, is_communication |-> FALSE, is_code |-> FALSE,
     is_document |-> FALSE, is_web |-> FALSE, urgency_level |-> "unset",
     emotional_indicators |-> <<>>, task_indicators |-> <<>>]

\* no response yet
NoResponse ==
    [status |-> "none", screenText |-> <<>>, transcript |-> <<>>,
     ocrConfidence |-> <<0, 1>>, asrConfidence |-> <<0, 1>>,
     contextAnalysis |-> NoAnalysis]

\* raise HTTPException(status_code=500, ...)
ErrorResponse == [NoResponse EXCEPT !.status = "error"]

\* the frame of a request that has not run yet
FreshFrame ==
    /\ image = "unread"
    /\ audio = "unread"
    /\ approach_idx = 0
    /\ best_result = EmptyResult
    /\ best_word_count = 0
    /\ ocr_data = EngineData(<<>>)
    /\ confident_words = <<>>
    /\ total_confidence = 0
    /\ word_count = 0
    /\ avg_confidence = <<0, 1>>
    /\ extracted_text = <<>>
    /\ outcomes = <<>>
    /\ screen_text = <<>>
    /\ ocr_confidence = <<0, 1>>
    /\ context_analysis = NoAnalysis
    /\ transcript = <<>>
    /\ asr_confidence = <<0, 1>>
    /\ response = NoResponse

\* the frame of the request that starts
ResetFrame ==
    /\ image' = "unread"
    /\ audio' = "unread"
    /\ approach_idx' = 0
    /\ best_result' = EmptyResult
    /\ best_word_count' = 0
    /\ ocr_data' = EngineData(<<>>)
    /\ confident_words' = <<>>
    /\ total_confidence' = 0
    /\ word_count' = 0
    /\ avg_confidence' = <<0, 1>>
    /\ extracted_text' = <<>>
    /\ outcomes' = <<>>
    /\ screen_text' = <<>>
    /\ ocr_confidence' = <<0, 1>>
    /\ context_analysis' = NoAnalysis
    /\ transcript' = <<>>
    /\ asr_confidence' = <<0, 1>>
    /\ response' = NoResponse

IdleRequest == processed_count = 0 /\ pc = "idle" /\ FreshFrame

IdleText ==
    /\ raw_text = <<>>
    /\ passes = 0
    /\ corrected = <<>>
    /\ recorrected = <<>>
    /\ adv_passes = 0
    /\ fixed = <<>>
    /\ refixed = <<>>

IdleClassify == text = <<>> /\ classified = FALSE /\ analysis = NoAnalysis

\* a request that has not reached the handler
NewTask ==
    [pc |-> "new", loaded |-> 0, image |-> "unread", audio |-> "unread",
     debug_saved |-> FALSE, response |-> NoResponse]

\* no request has arrived and the loop is free
IdleConc ==
    /\ tasks = [r \in 1..MaxRequests |-> NewTask]
    /\ running = 0
    /\ health = 0

(***************************************************************************)
(* analyze_brain_context, one request at a time.                           *)
(***************************************************************************)
\* The handler starts: the counter is incremented before the first await.
Analyze ==
    /\ pc \in {"idle", "done", "error"}
    /\ processed_count < MaxRequests
    /\ processed_count' = processed_count + 1
    /\ pc' = "read_image"
    /\ ResetFrame
    /\ UNCHANGED <<textVars, classifyVars, concVars>>

\* Image.open on the bytes read, the preprocessing, and the entry of
\* extract_text_with_confidence; bytes that are no image raise.
OpenImage ==
    /\ pc = "read_image"
    /\ \E img \in {"image", "garbage"} :
         /\ image' = img
         /\ IF img = "garbage"
            THEN pc' = "error" /\ response' = ErrorResponse
            ELSE pc' = "ocr" /\ response' = response
    /\ UNCHANGED <<processed_count, audio, approach_idx, best_result,
                   best_word_count, ocr_data, confident_words, total_confidence,
                   word_count, avg_confidence, extracted_text, outcomes,
                   screen_text, ocr_confidence, context_analysis, transcript,
                   asr_confidence, textVars, classifyVars, concVars>>

\* an error handler that starts the selection over
OnApproachErrorReset(best) == <<[text |-> <<>>, confidence |-> <<0, 1>>], 0>>

\* "except Exception as approach_error: ... continue": the best candidate so
\* far, <<best_result, best_word_count>>, is what it was
OnApproachError(best) == best

\* a selection that also replaces the best on an equal count when the new
\* candidate is the more confident one
SelectBestTieByConfidence(best, n, avg, txt) ==
    IF \/ Gate(n, avg, best[2])
       \/ /\ n = best[2]
          /\ n > 0
          /\ avg[1] * best[1].confidence[2] > best[1].confidence[1] * avg[2] * 100
    THEN <<[text |-> txt, confidence |-> Scaled(avg)], n>>
    ELSE best

\* the selection at the end of one approach
SelectBest(best, n, avg, txt) ==
    IF Gate(n, avg, best[2])
    THEN <<[text |-> txt, confidence |-> Scaled(avg)], n>>
    ELSE best

FailedOutcome ==
    [failed |-> TRUE, word_count |-> 0, avg_confidence |-> <<0, 1>>, text |-> <<>>]

\* One pass of "for approach in approaches" on what the engine returns.
RunApproach(outs) ==
    /\ pc = "ocr"
    /\ approach_idx < Len(approaches)
    /\ \E out \in outs :
         LET sc == ScoreTokens(out.tokens, FreshLocals)
             avg == AvgConfidence(sc.total_confidence, sc.word_count)
             txt == post_process_ocr_text(join(<<" ">>, sc.confident_words))
             best == <<best_result, best_word_count>>
             failed == OnApproachError(best)
             chosen == SelectBest(best, sc.word_count, avg, txt)
         IN  IF out.raises
             THEN \* image_to_data raised: no local is assigned
                  /\ UNCHANGED <<ocr_data, confident_words, total_confidence,
                                 word_count, avg_confidence, extracted_text>>
                  /\ best_result' = failed[1]
                  /\ best_word_count' = failed[2]
                  /\ outcomes' = Append(outcomes, FailedOutcome)
             ELSE IF sc.raised
             THEN \* int(conf) raised inside the token loop
                  /\ ocr_data' = out
                  /\ confident_words' = sc.confident_words
                  /\ total_confidence' = sc.total_confidence
                  /\ word_count' = sc.word_count
                  /\ UNCHANGED <<avg_confidence, extracted_text>>
                  /\ best_result' = failed[1]
                  /\ best_word_count' = failed[2]
                  /\ outcomes' = Append(outcomes, FailedOutcome)
             ELSE /\ ocr_data' = out
                  /\ confident_words' = sc.confident_words
                  /\ total_confidence' = sc.total_confidence
                  /\ word_count' = sc.word_count
                  /\ avg_confidence' = avg
                  /\ extracted_text' = txt
                  /\ best_result' = chosen[1]
                  /\ best_word_count' = chosen[2]
                  /\ outcomes' =
                         Append(outcomes,
                                [failed |-> FALSE, word_count |-> sc.word_count,
                                 avg_confidence |-> avg, text |-> txt])
    /\ approach_idx' = approach_idx + 1
    /\ UNCHANGED <<processed_count, pc, image, audio, screen_text,
                   ocr_confidence, context_analysis, transcript, asr_confidence,
                   response, textVars, classifyVars, concVars>>

\* JSONResponse({...})
OkResponse(st, tr, oc, ac, ca) ==
    [status |-> "ok", screenText |-> st, transcript |-> tr,
     ocrConfidence |-> oc, asrConfidence |-> ac, contextAnalysis |-> ca]

\* "return best_result", analyze_text_context, and the test of the audio
\* payload: without audio (None, or of size 0) the response follows at once.
ReturnBest ==
    /\ pc = "ocr"
    /\ approach_idx = Len(approaches)
    /\ screen_text' = best_result.text
    /\ ocr_confidence' = best_result.confidence
    /\ context_analysis' = analyze_text_context(best_result.text)
    /\ transcript' = <<>>
    /\ asr_confidence' = <<0, 1>>
    /\ \E aud \in {"none", "empty", "audio"} :
         /\ audio' = aud
         /\ IF aud = "audio"
            THEN pc' = "read_audio" /\ response' = response
            ELSE /\ pc' = "done"
                 /\ response' =
                        OkResponse(screen_text', <<>>, ocr_confidence',
                                   <<0, 1>>, context_analysis')
    /\ UNCHANGED <<processed_count, image, approach_idx, best_result,
                   best_word_count, ocr_data, confident_words, total_confidence,
                   word_count, avg_confidence, extracted_text, outcomes,
                   textVars, classifyVars, concVars>>

RECURSIVE SumNoSpeech(_)
\* sum(seg.get("no_speech_prob", 0.5) for seg in segments), in percent
SumNoSpeech(segments) ==
    IF segments = <<>> THEN 0
    ELSE (IF Head(segments).has_prob THEN Head(segments).no_speech_prob ELSE 50)
         + SumNoSpeech(Tail(segments))

\* the confidence from the whisper segments
AsrConfidence(segments) ==
    IF segments # <<>>
    THEN <<100 * Len(segments) - SumNoSpeech(segments), 100 * Len(segments)>>
    ELSE <<7, 10>>

\* what the handler does when whisper_model.transcribe raises: nothing
\* catches it before the handler's own "except Exception", which raises
\* HTTPException(500)
OnTranscribeError(st, oc, ca) == ErrorResponse

\* The audio bytes are read and transcribed, and the response follows.
Transcribe ==
    /\ pc = "read_audio"
    /\ \E result \in WhisperResults :
         IF result.raises
         THEN /\ pc' = "error"
              /\ response' =
                     OnTranscribeError(screen_text, ocr_confidence, context_analysis)
              /\ UNCHANGED <<transcript, asr_confidence>>
         ELSE /\ pc' = "done"
              /\ transcript' = strip(result.text)
              /\ asr_confidence' = AsrConfidence(result.segments)
              /\ response' =
                     OkResponse(screen_text, transcript', ocr_confidence,
                                asr_confidence', context_analysis)
    /\ UNCHANGED <<processed_count, image, audio, approach_idx, best_result,
                   best_word_count, ocr_data, confident_words, total_confidence,
                   word_count, avg_confidence, extracted_text, outcomes,
                   screen_text, ocr_confidence, context_analysis, textVars,
                   classifyVars, concVars>>

Init == IdleRequest /\ IdleText /\ IdleClassify /\ IdleConc

Next ==
    \/ Analyze
    \/ OpenImage
    \/ RunApproach(EngineOutputs)
    \/ ReturnBest
    \/ Transcribe

\* the worker serving requests
Spec == Init /\ [][Next]_vars

(***************************************************************************)
(* The token loop on its own: the first approach of a request, run on      *)
(* every single-token stream.                                              *)
(***************************************************************************)
InitToken ==
    /\ processed_count = 1
    /\ pc = "ocr"
    /\ FreshFrame
    /\ IdleText
    /\ IdleClassify
    /\ IdleConc

FirstApproach == approach_idx = 0 /\ RunApproach(TokenGrid)

SpecToken == InitToken /\ [][FirstApproach]_vars

(***************************************************************************)
(* The text correctors on their own.                                       *)
(***************************************************************************)
\* the characters of the raw strings: a letter, a look-alike digit, an
\* artifact character, a blank
CorrectorAlphabet == {"a", "0", "SECT", " "}

\* the words of the sentences: known misspellings and plain words
CorrectorWords ==
    {<<"t", "e", "h">>, <<"a", "d", "n">>, <<"t", "h", "e">>, <<"c", "a", "t">>}

\* every string of at most n characters of alphabet
Strings(alphabet, n) == UNION {[1..k -> alphabet] : k \in 0..n}

\* every sentence of 1..n words of vocabulary, single blanks between them
Sentences(vocabulary, n) ==
    {join(<<" ">>, ws) : ws \in UNION {[1..k -> vocabulary] : k \in 1..n}}

CorrectorInputs ==
    Strings(CorrectorAlphabet, MaxLen) \cup Sentences(CorrectorWords, MaxWords)

InitText ==
    /\ IdleRequest
    /\ IdleClassify
    /\ IdleConc
    /\ raw_text \in CorrectorInputs
    /\ passes = 0
    /\ corrected = <<>>
    /\ recorrected = <<>>
    /\ adv_passes = 0
    /\ fixed = <<>>
    /\ refixed = <<>>

\* post_process_ocr_text(raw_text)
Correct ==
    /\ passes = 0
    /\ corrected' = post_process_ocr_text(raw_text)
    /\ passes' = 1
    /\ UNCHANGED <<requestVars, classifyVars, concVars, raw_text, recorrected,
                   adv_passes, fixed, refixed>>

\* post_process_ocr_text on its own result
Recorrect ==
    /\ passes = 1
    /\ recorrected' = post_process_ocr_text(corrected)
    /\ passes' = 2
    /\ UNCHANGED <<requestVars, classifyVars, concVars, raw_text, corrected,
                   adv_passes, fixed, refixed>>

\* advanced_post_process(raw_text)
Fix ==
    /\ adv_passes = 0
    /\ fixed' = advanced_post_process(raw_text)
    /\ adv_passes' = 1
    /\ UNCHANGED <<requestVars, classifyVars, concVars, raw_text, passes, corrected,
                   recorrected, refixed>>

\* advanced_post_process on its own result
Refix ==
    /\ adv_passes = 1
    /\ refixed' = advanced_post_process(fixed)
    /\ adv_passes' = 2
    /\ UNCHANGED <<requestVars, classifyVars, concVars, raw_text, passes, corrected,
                   recorrected, fixed>>

NextText == Correct \/ Recorrect \/ Fix \/ Refix

SpecText == InitText /\ [][NextText]_vars

(***************************************************************************)
(* The classifier on its own.                                              *)
(***************************************************************************)
w_URGENT == <<"U", "R", "G", "E", "N", "T", ":">>
w_deadline == <<"d", "e", "a", "d", "l", "i", "n", "e">>
w_today == <<"t", "o", "d", "a", "y">>
w_from == <<"f", "r", "o", "m", ":">>
w_alice == <<"a", "l", "i", "c", "e", "@", "e", "x", "a", "m", "p", "l", "e", ".", "c", "o", "m">>
w_Subject == <<"S", "u", "b", "j", "e", "c", "t", ":">>
w_meeting == <<"m", "e", "e", "t", "i", "n", "g">>
w_Google == <<"G", "o", "o", "g", "l", "e">>

ClassifierWords ==
    {w_URGENT, w_deadline, w_today, w_from, w_alice, w_Subject, w_meeting,
     w_Google, w_hello}

\* "URGENT: deadline today"
UrgentText == join(<<" ">>, <<w_URGENT, w_deadline, w_today>>)

\* "from: alice@example.com Subject: meeting"
EmailText == join(<<" ">>, <<w_from, w_alice, w_Subject, w_meeting>>)

ClassifierInputs ==
    {<<>>, UrgentText, EmailText} \cup Sentences(ClassifierWords, MaxWords)

InitClassify ==
    /\ IdleRequest
    /\ IdleText
    /\ IdleConc
    /\ text \in ClassifierInputs
    /\ classified = FALSE
    /\ analysis = NoAnalysis

\* analyze_text_context(text)
Classify ==
    /\ ~classified
    /\ analysis' = analyze_text_context(text)
    /\ classified' = TRUE
    /\ UNCHANGED <<requestVars, textVars, text, concVars>>

SpecClassify == InitClassify /\ [][Classify]_vars

(***************************************************************************)
(* Concurrent requests.  analyze_brain_context and health_check are        *)
(* "async def" handlers, so every request is a coroutine on the one event  *)
(* loop of the one worker process: a coroutine keeps the loop until it     *)
(* reaches an await or ends.  "processed_count += 1" is a load and a store *)
(* of the shared attribute.                                                *)
(***************************************************************************)
\* what the engine returns to the three approaches of a concurrent request
ConcEngineRuns ==
    {<<EngineError, EngineError, EngineError>>,
     <<EngineError, EngineData(<<Token(w_hello, 90)>>),
       EngineData(<<Token(w_hello, 45), Token(w_ok, 90)>>)>>}

\* what whisper_model.transcribe does for a concurrent request
ConcWhisperResults ==
    {result \in WhisperResults : result.raises \/ result.segments = <<>>}

\* one pass of the loop over the approaches, on <<best_result, best_word_count>>
ApproachStep(best, out) ==
    LET sc == ScoreTokens(out.tokens, FreshLocals)
        avg == AvgConfidence(sc.total_confidence, sc.word_count)
        txt == post_process_ocr_text(join(<<" ">>, sc.confident_words))
    IN  IF out.raises \/ sc.raised
        THEN OnApproachError(best)
        ELSE SelectBest(best, sc.word_count, avg, txt)

RECURSIVE ExtractFrom(_, _)
\* the loop over the approaches, on the engine output of each
ExtractFrom(outs, best) ==
    IF outs = <<>> THEN best
    ELSE ExtractFrom(Tail(outs), ApproachStep(best, Head(outs)))

\* extract_text_with_confidence, on the engine outputs of the approaches
extract_text_with_confidence(outs) == ExtractFrom(outs, <<EmptyResult, 0>>)[1]

\* a scheduler that may also switch between the load and the store
AwaitPointsAndStore == {"store", "read_image", "read_audio"}

\* the positions at which a coroutine gives the loop back: "await
\* image.read()" and "await audio.read()"
AwaitPoints == {"read_image", "read_audio"}

\* who holds the loop once coroutine r stands at position p
Yield(r, p) == IF p \in AwaitPoints \cup {"done", "error"} THEN 0 ELSE r

\* coroutine r may take its next step: it holds the loop, or the loop is
\* free and r is new or suspended at an await
CanRun(r) ==
    \/ running = r
    \/ running = 0 /\ tasks[r].pc \in AwaitPoints \cup {"new"}

\* the positions after the store of the counter
Counted == {"read_image", "read_audio", "done", "error"}

frameVars ==
    <<pc, image, audio, approach_idx, best_result, best_word_count, ocr_data,
      confident_words, total_confidence, word_count, avg_confidence,
      extracted_text, outcomes, screen_text, ocr_confidence, context_analysis,
      transcript, asr_confidence, response>>

\* "velvet_processor.processed_count += 1": the load of the attribute
LoadCount(r) ==
    /\ tasks[r].pc = "new"
    /\ CanRun(r)
    /\ tasks' = [tasks EXCEPT ![r].pc = "store", ![r].loaded = processed_count]
    /\ running' = Yield(r, "store")
    /\ UNCHANGED <<processed_count, health, frameVars, textVars, classifyVars>>

\* "velvet_processor.processed_count += 1": the store of the sum; the
\* handler then runs up to "await image.read()"
StoreCount(r) ==
    /\ tasks[r].pc = "store"
    /\ CanRun(r)
    /\ processed_count' = tasks[r].loaded + 1
    /\ tasks' = [tasks EXCEPT ![r].pc = "read_image"]
    /\ running' = Yield(r, "read_image")
    /\ UNCHANGED <<health, frameVars, textVars, classifyVars>>

\* From the image bytes to "await audio.read()" or to the response: the
\* image is opened, the debug image saved while the shared counter is at
\* most 5, the text extracted and classified.
ConcOpenImage(r) ==
    /\ tasks[r].pc = "read_image"
    /\ CanRun(r)
    /\ \E img \in {"image", "garbage"}, aud \in {"none", "audio"},
          outs \in ConcEngineRuns :
         LET best == extract_text_with_confidence(outs)
             ca == analyze_text_context(best.text)
             position == IF img = "garbage" THEN "error"
                         ELSE IF aud = "audio" THEN "read_audio" ELSE "done"
             partial == [NoResponse EXCEPT !.screenText = best.text,
                                           !.ocrConfidence = best.confidence,
                                           !.contextAnalysis = ca]
         IN  /\ tasks' =
                    [tasks EXCEPT
                       ![r].pc = position,
                       ![r].image = img,
                       ![r].audio = IF img = "garbage" THEN "unread" ELSE aud,
                       ![r].debug_saved = img = "image" /\ processed_count <= 5,
                       ![r].response =
                           CASE position = "error" -> ErrorResponse
                             [] position = "read_audio" -> partial
                             [] OTHER ->
                                  OkResponse(best.text, <<>>, best.confidence,
                                             <<0, 1>>, ca)]
             /\ running' = Yield(r, position)
    /\ UNCHANGED <<processed_count, health, frameVars, textVars, classifyVars>>

\* From the audio bytes to the response.
ConcTranscribe(r) ==
    /\ tasks[r].pc = "read_audio"
    /\ CanRun(r)
    /\ \E result \in ConcWhisperResults :
         LET got == tasks[r].response
         IN  tasks' =
                 [tasks EXCEPT
                    ![r].pc = IF result.raises THEN "error" ELSE "done",
                    ![r].response =
                        IF result.raises
                        THEN OnTranscribeError(got.screenText, got.ocrConfidence,
                                               got.contextAnalysis)
                        ELSE OkResponse(got.screenText, strip(result.text),
                                        got.ocrConfidence,
                                        AsrConfidence(result.segments),
                                        got.contextAnalysis)]
    /\ running' = 0
    /\ UNCHANGED <<processed_count, health, frameVars, textVars, classifyVars>>

\* GET /health: the handler has no await
health_check ==
    /\ running = 0
    /\ health' = processed_count
    /\ UNCHANGED <<processed_count, tasks, running, frameVars, textVars,
                   classifyVars>>

NextConc ==
    \/ \E r \in 1..MaxRequests : LoadCount(r)
    \/ \E r \in 1..MaxRequests : StoreCount(r)
    \/ \E r \in 1..MaxRequests : ConcOpenImage(r)
    \/ \E r \in 1..MaxRequests : ConcTranscribe(r)
    \/ health_check

\* the worker serving concurrent requests
SpecConc == Init /\ [][NextConc]_vars

(***************************************************************************)
(* Properties.                                                             *)
(***************************************************************************)
\* the candidates of the approaches that did not fail, in declaration order
Candidates == SelectSeq(outcomes, LAMBDA o : ~o.failed)

\* mean confidence above 0.30
PassesConfidence(o) == o.avg_confidence[1] > 30 * o.avg_confidence[2]

\* the result a candidate stands for
ResultOf(o) ==
    [text |-> o.text,
     confidence |-> <<o.avg_confidence[1], o.avg_confidence[2] * 100>>]

AllApproachesFailed ==
    Len(outcomes) = Len(approaches) /\ \A i \in DOMAIN outcomes : outcomes[i].failed

\* C1: the returned candidate is one of the candidates processed (or the
\* empty default) and has at least as many accepted tokens as every
\* candidate whose mean confidence is above 0.30, in whatever order the
\* candidates came; with candidates (8 tokens, 45%) and (5 tokens, 90%) the
\* returned one has the 8 tokens.
C1_MostTokensWin ==
    /\ \A i \in DOMAIN outcomes :
         (~outcomes[i].failed /\ PassesConfidence(outcomes[i]))
             => best_word_count >= outcomes[i].word_count
    /\ \/ best_result = EmptyResult /\ best_word_count = 0
       \/ \E i \in DOMAIN outcomes :
            /\ ~outcomes[i].failed
            /\ PassesConfidence(outcomes[i])
            /\ outcomes[i].word_count = best_word_count
            /\ best_result = ResultOf(outcomes[i])
    /\ (\E i, j \in DOMAIN outcomes :
            /\ outcomes[i].word_count = 8
            /\ outcomes[i].avg_confidence = <<45 * 8, 8>>
            /\ outcomes[j].word_count = 5
            /\ outcomes[j].avg_confidence = <<90 * 5, 5>>)
         => /\ best_word_count >= 8
            /\ best_result.confidence # <<90 * 5, 100 * 5>>

\* C1 witness: the shorter, more confident candidate came first and the
\* longer one is returned.
C1_Witness ==
    /\ approach_idx = Len(approaches)
    /\ ~outcomes[1].failed
    /\ outcomes[1].word_count = MaxTokens - 3
    /\ outcomes[1].avg_confidence = <<90 * (MaxTokens - 3), MaxTokens - 3>>
    /\ ~outcomes[2].failed
    /\ outcomes[2].word_count = MaxTokens
    /\ outcomes[2].avg_confidence = <<45 * MaxTokens, MaxTokens>>
    /\ best_word_count = MaxTokens
    /\ best_result.confidence = <<45 * MaxTokens, 100 * MaxTokens>>

\* C2: a step of the selection loop changes the current best only when the
\* candidate of that step has strictly more accepted tokens than the best so
\* far and a mean confidence above 30, and then the candidate is the new
\* best; when no candidate of the three approaches has accepted tokens and a
\* mean confidence above 30, the result is the empty candidate.
C2_ReplacedOnlyThroughGate ==
    /\ [][(/\ pc = "ocr"
           /\ pc' = "ocr"
           /\ <<best_result, best_word_count>>' # <<best_result, best_word_count>>)
          => /\ word_count' > best_word_count
             /\ avg_confidence'[1] > 30 * avg_confidence'[2]
             /\ best_word_count' = word_count'
             /\ best_result' =
                    [text |-> extracted_text',
                     confidence |-> <<avg_confidence'[1], avg_confidence'[2] * 100>>]
         ]_vars
    /\ []((/\ approach_idx = Len(approaches)
           /\ \A i \in DOMAIN outcomes :
                \/ outcomes[i].failed
                \/ ~(outcomes[i].word_count > 0 /\ PassesConfidence(outcomes[i])))
          => best_result = EmptyResult)

\* C2 witness: two candidates with the same number of accepted tokens were
\* processed, and the first of them is still the best.
C2_Witness ==
    /\ approach_idx = Len(approaches)
    /\ ~outcomes[1].failed
    /\ ~outcomes[2].failed
    /\ outcomes[1].word_count > 0
    /\ outcomes[2].word_count = outcomes[1].word_count
    /\ outcomes[2].avg_confidence # outcomes[1].avg_confidence
    /\ outcomes[3].word_count = 0
    /\ best_result = ResultOf(outcomes[1])

\* the minimum of the claim, by the shape of the trimmed token
ClaimMinimum(w) ==
    IF isalpha(w) /\ Len(w) > 2 THEN 30
    ELSE IF Len(w) > 4 THEN 35
    ELSE 40

\* the trimmed words of the single-token streams
GridWords == {strip(o.tokens[1].text) : o \in TokenGrid}

\* C3: after the token loop ran on one token, the token is accepted exactly
\* when its trimmed text is longer than 1 and its confidence is strictly
\* above 30 (alphabetic, longer than 2), else 35 (longer than 4), else 40;
\* a word longer than 4 never has a higher minimum than a word of the same
\* kind of length <= 4; "definitely" with confidence 32 is accepted.
C3_TokenAcceptance ==
    /\ approach_idx = 1 =>
         LET tok == ocr_data.tokens[1]
             w == strip(tok.text)
             accepted ==
                 /\ confident_words = <<w>>
                 /\ word_count = 1
                 /\ total_confidence = tok.conf
             rejected ==
                 /\ confident_words = <<>>
                 /\ word_count = 0
                 /\ total_confidence = 0
         IN  /\ accepted <=> (Len(w) > 1 /\ tok.conf > ClaimMinimum(w))
             /\ accepted \/ rejected
             /\ tok = Token(w_definitely, 32) => accepted
    /\ \A w1, w2 \in GridWords :
         (Len(w1) > 4 /\ Len(w2) > 1 /\ Len(w2) <= 4 /\ isalpha(w1) = isalpha(w2))
             => min_confidence(w1) <= min_confidence(w2)

\* C3 witness: "definitely" with confidence 32 went through the loop and was
\* accepted.
C3_Witness ==
    /\ approach_idx = 1
    /\ ocr_data.tokens = <<Token(w_definitely, 32)>>
    /\ confident_words = <<w_definitely>>
    /\ word_count = 1

RECURSIVE SelectionOver(_, _)
\* the selection of the claims over a list of candidates, from best on
SelectionOver(cands, best) ==
    IF cands = <<>> THEN best
    ELSE LET c == Head(cands)
         IN  SelectionOver(
                 Tail(cands),
                 IF c.word_count > best[2] /\ PassesConfidence(c)
                 THEN <<ResultOf(c), c.word_count>>
                 ELSE best)

\* C4: at every point of the loop the current best is the selection over the
\* approaches that did not fail (a failing approach changes neither the best
\* candidate nor its count); the loop is left only after all approaches were
\* tried; a failing approach never makes the request fail; when all fail the
\* result is ("", 0.0) and the classification of the empty text follows.
C4_FailedApproachSkipped ==
    /\ <<best_result, best_word_count>>
           = SelectionOver(Candidates, <<EmptyResult, 0>>)
    /\ pc \in {"read_audio", "done"} => Len(outcomes) = Len(approaches)
    /\ (response.status = "error" /\ image = "image") => audio = "audio"
    /\ (AllApproachesFailed /\ approach_idx = Len(approaches))
           => best_result = EmptyResult
    /\ (AllApproachesFailed /\ audio # "unread")
           => /\ screen_text = <<>>
              /\ ocr_confidence = <<0, 1>>
              /\ context_analysis =
                     [NoAnalysis EXCEPT !.urgency_level = "low"]
    /\ (AllApproachesFailed /\ audio \in {"none", "empty"})
           => /\ pc = "done"
              /\ response.status = "ok"
              /\ response.screenText = <<>>
              /\ response.ocrConfidence = <<0, 1>>

\* C4 witness: the second approach failed, the first and the third did not,
\* and the third, with more accepted tokens, is the result of the request.
C4_Witness ==
    /\ pc = "done"
    /\ ~outcomes[1].failed
    /\ outcomes[1].word_count > 0
    /\ outcomes[2].failed
    /\ ~outcomes[3].failed
    /\ outcomes[3].word_count > outcomes[1].word_count
    /\ response.status = "ok"
    /\ response.screenText = outcomes[3].text
    /\ response.ocrConfidence = ResultOf(outcomes[3]).confidence

\* C5: a request that carries audio ends in a normal response with the
\* screen text, the OCR confidence and the context analysis, whatever the
\* transcription does; only an undecodable image gives the error response.
C5_AudioFailureRecovered ==
    /\ (audio = "audio" /\ pc \in {"done", "error"})
           => /\ response.status = "ok"
              /\ response.screenText = screen_text
              /\ response.ocrConfidence = ocr_confidence
              /\ response.contextAnalysis = context_analysis
    /\ response.status = "error" => image = "garbage"

\* the confidences the extraction hands on
ReportedConfidences ==
    {best_result.confidence, ocr_confidence, response.ocrConfidence}

\* C8: the confidence of the current best, the one returned and the
\* ocrConfidence of the response are fractions between 0 and 1.
C8_ConfidenceInUnitInterval ==
    \A c \in ReportedConfidences : c[2] > 0 /\ 0 <= c[1] /\ c[1] <= c[2]

\* C8 witness: a response whose ocrConfidence is exactly 1.0, from a token
\* of confidence 100.
C8_Witness ==
    /\ response.status = "ok"
    /\ response.screenText # <<>>
    /\ response.ocrConfidence[1] = response.ocrConfidence[2]

\* C6: correcting a corrected text changes nothing, and the empty string is
\* corrected to the empty string.
C6_CorrectionIdempotent ==
    /\ passes = 2 => recorrected = corrected
    /\ (passes >= 1 /\ raw_text = <<>>) => corrected = <<>>

\* the fix of a word of the known-misspelling dictionary, else the word
FixOf(w) ==
    IF \E k \in DOMAIN word_fixes : word_fixes[k][1] = w
    THEN word_fixes[CHOOSE k \in DOMAIN word_fixes : word_fixes[k][1] = w][2]
    ELSE w

\* C7: in the corrected sentence every word that is a known misspelling is
\* replaced by its fix, wherever it stands, and the other words are kept.
C7_MisspellingsReplaced ==
    (adv_passes >= 1 /\ raw_text \in Sentences(CorrectorWords, MaxWords))
        => split(fixed) = [i \in DOMAIN split(raw_text) |-> FixOf(split(raw_text)[i])]

\* C9: exactly one urgency level is reported: "high" when the lowercased
\* text holds a high-urgency keyword, else "medium" when it holds a
\* medium-urgency keyword, else "low"; "URGENT: deadline today" is "high".
C9_UrgencyByPriority ==
    classified =>
        LET high == AnyIn(urgent_patterns, lower(text))
            medium == AnyIn(medium_patterns, lower(text))
        IN  /\ analysis.urgency_level \in {"high", "medium", "low"}
            /\ analysis.urgency_level = "high" <=> high
            /\ analysis.urgency_level = "medium" <=> (~high /\ medium)
            /\ analysis.urgency_level = "low" <=> (~high /\ ~medium)
            /\ text = UrgentText => analysis.urgency_level = "high"

\* C9 witness: "URGENT: deadline today", which holds keywords of both tiers,
\* was classified "high".
C9_Witness ==
    /\ classified
    /\ text = UrgentText
    /\ AnyIn(medium_patterns, lower(text))
    /\ analysis.urgency_level = "high"

\* is_web only with a web keyword in the lowercased text
WebOnlyWithKeyword ==
    (classified /\ analysis.is_web) => AnyIn(web_patterns, lower(text))

\* C10 as stated: "from: alice@example.com Subject: meeting" is a
\* communication, is not web, and has urgency "medium"; is_web only with a
\* web keyword.
C10_EmailNotWeb ==
    /\ (classified /\ text = EmailText)
           => /\ analysis.is_communication
              /\ ~analysis.is_web
              /\ analysis.urgency_level = "medium"
    /\ WebOnlyWithKeyword

\* C10 amended: "from: alice@example.com Subject: meeting" is a
\* communication, IS web (it holds the web keyword ".com"), and has urgency
\* "medium"; is_web only with a web keyword.
C10_EmailIsWeb ==
    /\ (classified /\ text = EmailText)
           => /\ analysis.is_communication
              /\ analysis.is_web
              /\ analysis.urgency_level = "medium"
    /\ WebOnlyWithKeyword

\* C10 witness: the text of the scenario was classified and is_web is set.
C10_Witness ==
    /\ classified
    /\ text = EmailText
    /\ analysis.is_web
    /\ Contains(lower(text), <<".", "c", "o", "m">>)

\* the approaches whose candidate has accepted tokens and a mean above 0.30
Passing ==
    {i \in DOMAIN outcomes :
         /\ ~outcomes[i].failed
         /\ outcomes[i].word_count > 0
         /\ PassesConfidence(outcomes[i])}

\* the largest accepted-token count among the passing candidates
TopCount ==
    CHOOSE n \in {outcomes[i].word_count : i \in Passing} :
        \A i \in Passing : outcomes[i].word_count <= n

\* the earliest-declared approach whose passing candidate has the top count
EarliestTop ==
    CHOOSE i \in Passing :
        /\ outcomes[i].word_count = TopCount
        /\ \A j \in Passing : outcomes[j].word_count = TopCount => i <= j

\* C12: the current best is a function of the candidates processed: the
\* empty candidate when none passes, else the candidate of the
\* earliest-declared approach among those with the highest accepted-token
\* count; a later candidate with the same count never displaces it.
C12_EarliestOfTheLongestWins ==
    /\ [](Passing = {} => (best_result = EmptyResult /\ best_word_count = 0))
    /\ [](Passing # {} =>
             /\ best_word_count = TopCount
             /\ best_result = ResultOf(outcomes[EarliestTop]))
    /\ [][(pc = "ocr" /\ pc' = "ocr" /\ word_count' = best_word_count
             /\ best_word_count > 0)
          => best_result' = best_result]_vars

\* C12 witness: the second candidate has as many accepted tokens as the
\* first and a higher confidence, the third approach failed, and the first
\* candidate is the result.
C12_Witness ==
    /\ approach_idx = Len(approaches)
    /\ Passing = {1, 2}
    /\ outcomes[2].word_count = outcomes[1].word_count
    /\ outcomes[2].avg_confidence[1] > outcomes[1].avg_confidence[1]
    /\ outcomes[3].failed
    /\ best_result = ResultOf(outcomes[1])
    /\ best_result # ResultOf(outcomes[2])

\* C13: every candidate with accepted tokens has a mean confidence above 30
\* (every minimum is at least 30), so the confidence test of the gate only
\* ever rejects candidates without accepted tokens, and a result other than
\* the default has a confidence in (0.30, 1.0].
C13_AcceptedMeansAboveGate ==
    /\ \A i \in DOMAIN outcomes :
         (~outcomes[i].failed /\ outcomes[i].word_count > 0)
             => PassesConfidence(outcomes[i])
    /\ \A w \in GridWords : min_confidence(w) >= 30
    /\ (word_count > 0 /\ ~ocr_data.raises) => total_confidence > 30 * word_count
    /\ best_result # EmptyResult =>
         /\ best_word_count > 0
         /\ 100 * best_result.confidence[1] > 30 * best_result.confidence[2]
         /\ best_result.confidence[1] <= best_result.confidence[2]

\* C13 witness: a candidate of one alphabetic word at confidence 31, just
\* above the gate, is the result.
C13_Witness ==
    /\ approach_idx = Len(approaches)
    /\ best_word_count = 1
    /\ best_result.text = w_the
    /\ best_result.confidence = <<31, 100>>

\* C14: the text of the result is empty exactly when its confidence is 0.0,
\* in the current best, in what the extraction returned and in the response.
C14_EmptyTextIffZeroConfidence ==
    /\ best_result.text = <<>> <=> best_result.confidence[1] = 0
    /\ screen_text = <<>> <=> ocr_confidence[1] = 0
    /\ response.screenText = <<>> <=> response.ocrConfidence[1] = 0

\* C11: under every interleaving of concurrent analyze requests and health
\* checks the shared counter never decreases and no increment is lost: the
\* counter equals the number of requests that executed the increment, and a
\* health check never reports more than that.
C11_NoLostIncrement ==
    /\ [](processed_count
             = Cardinality({r \in DOMAIN tasks : tasks[r].pc \in Counted}))
    /\ [](health <= processed_count)
    /\ [][processed_count' >= processed_count /\ health' >= health]_vars

\* C11 witness: every request has executed the increment and all of them are
\* suspended at an await at the same time, after a health check that saw
\* only some of the increments.
C11_Witness ==
    /\ processed_count = MaxRequests
    /\ \A r \in DOMAIN tasks : tasks[r].pc \in AwaitPoints
    /\ \E r \in DOMAIN tasks : tasks[r].pc = "read_audio"
    /\ \E r \in DOMAIN tasks : tasks[r].pc = "read_image"
    /\ running = 0
    /\ health > 0
    /\ health < processed_count

====
